---------------------------- MODULE Spec2Model ----------------------------
(***************************************************************************)
(* A model of the card price lookup service (accold/mtg-price-api).        *)
(*                                                                         *)
(* The repository holds several variants of one Express server.  Each      *)
(* exposes GET /price, whose handler calls fetchCardPrice(searchTerm,      *)
(* chatUser): an optional cache lookup, a scrape of the marketplace page   *)
(* (the listing source), and a synchronous pipeline that matches the       *)
(* listings against the query, selects a representative per foil/non-foil  *)
(* group and formats one chat message.                                     *)
(*                                                                         *)
(* JavaScript strings are modelled by TLA+ strings (Len, \o and SubSeq     *)
(* work on them in TLC); every string function of the source is an         *)
(* operator that computes what the JavaScript function computes.           *)
(***************************************************************************)
EXTENDS Integers, Sequences, FiniteSets, TLC

VARIABLES
    variant,    \* which server file is running (fixed at start)
    now,        \* Date.now(), in milliseconds since start
    ticks,      \* how many times the clock has advanced (bounds the run)
    cache,      \* the Map `cache`: a function from keys to entries
    req,        \* per request: position in the route handler / fetchCardPrice
    sweeps,     \* how many times the setInterval cache sweep has run
    ppText,     \* parsePrice call: the argument
    ppOut,      \* parsePrice call: the returned value, or Pending
    pmCards,    \* prioritizeMainSet call: the argument
    pmOut,      \* prioritizeMainSet call: the returned value, or Pending
    plIn,       \* pipeline call: variant, query, user, scraped elements
    plOut,      \* pipeline call: the outcome, or Pending
    fmIn,       \* fuzzyMatch call: the arguments
    fmOut,      \* fuzzyMatch call: the returned value, or Pending
    browserInstance, \* `let browserInstance`: 0 for null, else the launch it came from
    launches,   \* how many times chromium.launch has been called
    pagePool,   \* `let pagePool`: the array of idle pages
    pagesMade,  \* how many pages browser.newPage has created (the page ids)
    caller      \* per caller of getBrowser / fetchCardPrice: where it stands

vars == <<variant, now, ticks, cache, req, sweeps,
          ppText, ppOut, pmCards, pmOut, plIn, plOut, fmIn, fmOut,
          browserInstance, launches, pagePool, pagesMade, caller>>

serverVars == <<variant, now, ticks, cache, req, sweeps>>
ppVars == <<ppText, ppOut>>
pmVars == <<pmCards, pmOut>>
plVars == <<plIn, plOut>>
fmVars == <<fmIn, fmOut>>
poolVars == <<browserInstance, launches, pagePool, pagesMade, caller>>

-----------------------------------------------------------------------------
(* Bounds of the model *)

MaxReq == 2         \* requests per run
MaxTicks == 2       \* clock advances per run
MaxEls == 2         \* product elements a scrape returns (pipeline call)
MaxWords == 5       \* words of a query handed to fuzzyMatch
MaxCards == 3       \* listings in a subset handed to prioritizeMainSet
LongLen == 380      \* length of the long query / long title

-----------------------------------------------------------------------------
(* JavaScript string functions *)

Chr(s, i) == SubSeq(s, i, i)

Digits == "0123456789"
UpperAlpha == "ABCDEFGHIJKLMNOPQRSTUVWXYZ"
LowerAlpha == "abcdefghijklmnopqrstuvwxyz"

PosIn(alphabet, c) == CHOOSE i \in 1..Len(alphabet) : Chr(alphabet, i) = c

CharsOf(alphabet) == {Chr(alphabet, i) : i \in 1..Len(alphabet)}
DigitChars == CharsOf(Digits)
UpperChars == CharsOf(UpperAlpha)
LowerChars == CharsOf(LowerAlpha)

IsDigit(c) == c \in DigitChars
\* \w of a JavaScript regular expression: [A-Za-z0-9_]
IsWordChar(c) == c \in DigitChars \/ c \in UpperChars \/ c \in LowerChars \/ c = "_"
\* \s of a JavaScript regular expression (the model's texts use the space only)
IsSpace(c) == c = " "

LowerChar(c) == IF c \in UpperChars THEN Chr(LowerAlpha, PosIn(UpperAlpha, c)) ELSE c

\* one character kept (mode "lower": lower-cased) or dropped
MapChar(c, mode) ==
    CASE mode = "lower" -> LowerChar(c)
      [] mode = "word" -> IF IsWordChar(c) THEN c ELSE ""
      [] mode = "price" -> IF IsDigit(c) \/ c = "." THEN c ELSE ""

RECURSIVE MapRange(_, _, _, _)
\* MapChar over the characters lo..hi of s, by halves (the recursion stays shallow)
MapRange(s, lo, hi, mode) ==
    IF lo > hi THEN ""
    ELSE IF lo = hi THEN MapChar(Chr(s, lo), mode)
    ELSE LET mid == (lo + hi) \div 2
         IN MapRange(s, lo, mid, mode) \o MapRange(s, mid + 1, hi, mode)

MapFrom(s, i, mode) == MapRange(s, i, Len(s), mode)

\* String.prototype.toLowerCase
toLowerCase(s) == MapFrom(s, 1, "lower")
\* s.replace(/\W/g, "")
StripNonWord(s) == MapFrom(s, 1, "word")
\* s.replace(/[^0-9.]/g, "")
KeepPriceChars(s) == MapFrom(s, 1, "price")

\* whether t occurs in s at position i (1-based)
OccursAt(s, t, i) == i + Len(t) - 1 <= Len(s) /\ SubSeq(s, i, i + Len(t) - 1) = t

Min(S) == CHOOSE x \in S : \A y \in S : x <= y

\* String.prototype.indexOf, 1-based; 0 when t does not occur
IndexOf(s, t) ==
    LET hits == {i \in 1..(Len(s) + 1) : OccursAt(s, t, i)}
    IN IF hits = {} THEN 0 ELSE Min(hits)

\* String.prototype.includes
includes(s, t) == IndexOf(s, t) > 0

\* String.prototype.replace with a string pattern: the first occurrence only
\* (the replacement texts of the model hold no "$", so no $-pattern applies)
replace(s, pat, rep) ==
    LET i == IndexOf(s, pat)
    IN IF i = 0 THEN s
       ELSE SubSeq(s, 1, i - 1) \o rep \o SubSeq(s, i + Len(pat), Len(s))

RECURSIVE RemoveAllCI(_, _)
\* s.replace(/pat/gi, "") for a literal pattern pat given in lower case
RemoveAllCI(s, pat) ==
    LET i == IndexOf(toLowerCase(s), pat)
    IN IF i = 0 THEN s
       ELSE SubSeq(s, 1, i - 1) \o RemoveAllCI(SubSeq(s, i + Len(pat), Len(s)), pat)

\* String.prototype.trim
trim(s) ==
    LET ink == {i \in 1..Len(s) : ~IsSpace(Chr(s, i))}
    IN IF ink = {} THEN "" ELSE SubSeq(s, Min(ink), Len(s) + 1 - Min({Len(s) + 1 - i : i \in ink}))

\* s.slice(0, n) for n >= 0
sliceTo(s, n) == SubSeq(s, 1, IF n < Len(s) THEN n ELSE Len(s))
\* s.slice(0, -1)
dropLast(s) == SubSeq(s, 1, Len(s) - 1)

\* s.split(/\s+/): the pieces between maximal runs of whitespace; a leading or
\* trailing run yields an empty first or last piece, and "" yields <<"">>
splitWs(s) ==
    LET n == Len(s)
        starts == {i \in 1..n : ~IsSpace(Chr(s, i)) /\ (i = 1 \/ IsSpace(Chr(s, i - 1)))}
        ends == {i \in 1..n : ~IsSpace(Chr(s, i)) /\ (i = n \/ IsSpace(Chr(s, i + 1)))}
        k == Cardinality(starts)
        nth(S, j) == CHOOSE x \in S : Cardinality({y \in S : y < x}) = j - 1
        words == [j \in 1..k |-> SubSeq(s, nth(starts, j), nth(ends, j))]
        front == IF n = 0 \/ IsSpace(Chr(s, 1)) THEN <<"">> ELSE <<>>
        back == IF n > 0 /\ IsSpace(Chr(s, n)) THEN <<"">> ELSE <<>>
    IN front \o words \o back

RECURSIVE Rep(_, _)
\* c repeated n times
Rep(c, n) ==
    IF n = 0 THEN ""
    ELSE LET h == Rep(c, n \div 2) IN h \o h \o (IF n % 2 = 1 THEN c ELSE "")

-----------------------------------------------------------------------------
(* Numbers: parseFloat and the subtraction the sort comparators make *)

\* A JavaScript value that is null, NaN or a non-negative decimal num/den
Null == [kind |-> "null", num |-> 0, den |-> 1]
NaN == [kind |-> "NaN", num |-> 0, den |-> 1]
Num(n, d) == [kind |-> "num", num |-> n, den |-> d]

RECURSIVE DigitRun(_, _)
\* the length of the run of digits of s that starts at position i
DigitRun(s, i) ==
    IF i <= Len(s) /\ IsDigit(Chr(s, i)) THEN 1 + DigitRun(s, i + 1) ELSE 0

RECURSIVE DigitsValue(_, _, _)
\* the value of the n digits of s from position i, and 10^n
DigitsValue(s, i, n) ==
    IF n = 0 THEN [v |-> 0, p |-> 1]
    ELSE LET r == DigitsValue(s, i, n - 1)
         IN [v |-> 10 * r.v + (PosIn(Digits, Chr(s, i + n - 1)) - 1), p |-> 10 * r.p]

\* parseFloat of a text made of digits and "." only: the longest prefix
\* digits [ "." digits ] holding at least one digit; NaN when there is none
parseFloat(s) ==
    LET ni == DigitRun(s, 1)
        hasDot == ni < Len(s) /\ Chr(s, ni + 1) = "."
        nf == IF hasDot THEN DigitRun(s, ni + 2) ELSE 0
        ip == DigitsValue(s, 1, ni)
        fp == DigitsValue(s, ni + 2, nf)
    IN IF ni + nf = 0 THEN NaN ELSE Num(ip.v * fp.p + fp.v, fp.p)

\* ToNumber of a value in a subtraction: null counts as 0
ToNumber(x) == IF x.kind = "null" THEN Num(0, 1) ELSE x

\* whether x - y is NaN
SubIsNaN(x, y) == x.kind = "NaN" \/ y.kind = "NaN"

\* the sign of x - y, when it is a number
SubSign(x, y) ==
    LET a == ToNumber(x)
        b == ToNumber(y)
        d == a.num * b.den - b.num * a.den
    IN IF d < 0 THEN -1 ELSE IF d > 0 THEN 1 ELSE 0

\* x || fallback on a number: 0 and NaN are falsy
OrElse(x, fallback) ==
    IF x.kind = "NaN" \/ (x.kind = "num" /\ x.num = 0) THEN fallback ELSE x

-----------------------------------------------------------------------------
(* Array.prototype.sort(comparefn) as Node's V8 runs it on an array shorter   *)
(* than 64 elements: one run is counted (and reversed when strictly           *)
(* descending), the rest is inserted by binary insertion.  The comparator is  *)
(* the sign of keys[a] - keys[b]; a NaN result counts as 0 (SortCompare).     *)
(* The arrays are sequences of positions into keys.                           *)

SortCompare(keys, a, b) ==
    IF SubIsNaN(keys[a], keys[b]) THEN 0 ELSE SubSign(keys[a], keys[b])

RECURSIVE RunEnd(_, _, _, _)
\* the last index of the run that holds p[i - 1]
RunEnd(p, keys, i, desc) ==
    IF i > Len(p) THEN i - 1
    ELSE LET order == SortCompare(keys, p[i], p[i - 1])
         IN IF (desc /\ order >= 0) \/ (~desc /\ order < 0) THEN i - 1
            ELSE RunEnd(p, keys, i + 1, desc)

\* CountAndMakeRun: p with its first run made ascending, and the run's length
CountAndMakeRun(p, keys) ==
    IF Len(p) < 2 THEN [arr |-> p, run |-> Len(p)]
    ELSE LET desc == SortCompare(keys, p[2], p[1]) < 0
             run == RunEnd(p, keys, 3, desc)
         IN [arr |-> IF desc
                     THEN [i \in 1..Len(p) |-> IF i <= run THEN p[run + 1 - i] ELSE p[i]]
                     ELSE p,
             run |-> run]

RECURSIVE BinarySearch(_, _, _, _, _)
\* where the pivot goes among p[left + 1 .. right] (0-based bounds, as in V8)
BinarySearch(p, keys, pivot, left, right) ==
    IF left >= right THEN left
    ELSE LET mid == left + ((right - left) \div 2)
         IN IF SortCompare(keys, pivot, p[mid + 1]) < 0
            THEN BinarySearch(p, keys, pivot, left, mid)
            ELSE BinarySearch(p, keys, pivot, mid + 1, right)

RECURSIVE BinaryInsertionSort(_, _, _)
\* p[1 .. start] is sorted; insert p[start + 1], p[start + 2], ...
BinaryInsertionSort(p, keys, start) ==
    IF start >= Len(p) THEN p
    ELSE LET pivot == p[start + 1]
             left == BinarySearch(p, keys, pivot, 0, start)
             q == [i \in 1..Len(p) |->
                     IF i <= left THEN p[i]
                     ELSE IF i = left + 1 THEN pivot
                     ELSE IF i <= start + 1 THEN p[i - 1]
                     ELSE p[i]]
         IN BinaryInsertionSort(q, keys, start + 1)

\* the positions 1..Len(keys) in the order sort leaves them
SortOrder(keys) ==
    LET r == CountAndMakeRun([i \in 1..Len(keys) |-> i], keys)
    IN BinaryInsertionSort(r.arr, keys, r.run)

\* arr.sort((a, b) => key(a) - key(b)), keys[i] being key(arr[i])
sort(arr, keys) == LET o == SortOrder(keys) IN [i \in 1..Len(arr) |-> arr[o[i]]]

\* arr.filter(...), keep[i] telling whether arr[i] passes
filter(arr, keep) ==
    LET idx == {i \in 1..Len(arr) : keep[i]}
        nth(j) == CHOOSE x \in idx : Cardinality({y \in idx : y < x}) = j - 1
    IN [j \in 1..Cardinality(idx) |-> arr[nth(j)]]

-----------------------------------------------------------------------------
(* Price parser and variant selector *)

\* function parsePrice(priceStr)
parsePrice(priceStr) ==
    IF priceStr = "" \/ priceStr = "N/A" THEN Null
    ELSE parseFloat(KeepPriceChars(priceStr))

\* the value `null' where a listing is expected
NoCard == [null |-> TRUE]

\* const prioritizeMainSet = (cards) => ... of the full pipeline
prioritizeMainSet(cards) ==
    IF Len(cards) = 0 THEN NoCard
    ELSE LET price == [i \in 1..Len(cards) |-> parsePrice(cards[i].market)]
             mainSet == filter(cards, [i \in 1..Len(cards) |->
                            ~cards[i].isSpecial /\ price[i] # Null])
             priced == filter(cards, [i \in 1..Len(cards) |-> price[i] # Null])
             keysOf(arr) == [i \in 1..Len(arr) |-> parsePrice(arr[i].market)]
         IN IF Len(mainSet) > 0 THEN sort(mainSet, keysOf(mainSet))[1]
            ELSE IF Len(priced) > 0 THEN sort(priced, keysOf(priced))[1]
            ELSE cards[1]

\* the missing-price rank of the puppeteer route's comparator
MissingPriceRank == 999999

\* const prioritizeMainSet = (cards) => ... of the puppeteer route
prioritizeMainSetNA(cards) ==
    IF Len(cards) = 0 THEN NoCard
    ELSE LET sortedOf(arr) ==
                 LET kept == filter(arr, [i \in 1..Len(arr) |-> arr[i].market # "N/A"])
                 IN sort(kept, [i \in 1..Len(kept) |->
                        OrElse(parseFloat(KeepPriceChars(kept[i].market)),
                               Num(MissingPriceRank, 1))])
             mainSetCards == filter(cards, [i \in 1..Len(cards) |-> ~cards[i].isSpecial])
             sortedMain == sortedOf(mainSetCards)
             sortedAll == sortedOf(cards)
         IN IF Len(sortedMain) > 0 THEN sortedMain[1]
            ELSE IF Len(sortedAll) > 0 THEN sortedAll[1]
            ELSE cards[1]


-----------------------------------------------------------------------------
(* Fuzzy matcher *)

Abs(x) == IF x < 0 THEN -x ELSE x

\* the threshold rounded down instead of up (what the claim on the threshold
\* must tell apart from CeilEightTenths)
FloorEightTenths(n) == (8 * n) \div 10

\* Math.ceil(n * 0.8), for the word counts of the model
CeilEightTenths(n) == (8 * n + 9) \div 10

\* function fuzzyMatch(searchTerm, cardTitle) of the full pipeline
fuzzyMatch(searchTerm, cardTitle) ==
    LET searchWords == splitWs(toLowerCase(searchTerm))
        titleWords == splitWs(toLowerCase(cardTitle))
        covers(titleWord, searchWord) ==
            \/ includes(titleWord, searchWord)
            \/ includes(searchWord, titleWord)
            \/ /\ Abs(Len(titleWord) - Len(searchWord)) <= 1
               /\ dropLast(titleWord) = dropLast(searchWord)
        matchedWords == {i \in 1..Len(searchWords) :
                            \E j \in 1..Len(titleWords) :
                                covers(titleWords[j], searchWords[i])}
    IN Cardinality(matchedWords) >= CeilEightTenths(Len(searchWords))

-----------------------------------------------------------------------------
(* Listing normalizer: what the page.$$eval callback returns per element.    *)
(* An element el is [title, price, set]; each is <<>> when querySelector     *)
(* finds no node and <<text>> with the node's innerText otherwise.           *)

Variants == {"pool", "race", "cache", "context", "launch"}
\* "pool":    src/server.js 1-226, page pool, cache, substring matching
\* "race":    src/server.js 228-475, full pipeline behind Promise.race
\* "cache":   src/unnamed/part_004, full pipeline and cache
\* "context": src/unnamed/part_001, browser context per request, cache
\* "launch":  src/unnamed/part_003, browser launched per request

SpecialKeywords ==
    {"serialized", "prestige", "hyperspace", "showcase", "alternate art",
     "extended art", "organized play", "promo", "(prestige)", "(showcase)",
     "(hyperspace)", "(serialized)"}

\* /(serialized|prestige|...)/i.test(text)
isSpecialText(text) ==
    LET lower == toLowerCase(text) IN \E k \in SpecialKeywords : includes(lower, k)

\* titleEl ? titleEl.innerText.trim() : dflt
TextOr(node, dflt) == IF node = <<>> THEN dflt ELSE trim(node[1])
\* el?.innerText.trim() || dflt
TextOrIfEmpty(node, dflt) ==
    IF node = <<>> \/ trim(node[1]) = "" THEN dflt ELSE trim(node[1])

\* cards.slice(0, n) of the $$eval callbacks
PoolSlice == 8
RaceSlice == 15
sliceEls(v, els) ==
    LET n == IF v = "pool" THEN PoolSlice ELSE IF v = "race" THEN RaceSlice ELSE Len(els)
    IN SubSeq(els, 1, IF Len(els) < n THEN Len(els) ELSE n)

\* the object the callback builds for the element at position pos (pos stands
\* for the object's identity), for a non-empty title
MakeCard(v, searchTerm, pos, el) ==
    LET title == TextOr(el.title, "")
        market == IF v \in {"context", "launch"} THEN TextOrIfEmpty(el.price, "N/A")
                  ELSE TextOr(el.price, "N/A")
        setName == TextOr(el.set, "")
    IN [pos |-> pos, title |-> title, market |-> market, setName |-> setName,
        isFoil |-> includes(toLowerCase(title), "foil"),
        isSpecial |-> IF v = "pool" THEN FALSE ELSE isSpecialText(title \o " " \o setName),
        isMatch |-> IF v = "pool"
                    THEN \/ includes(toLowerCase(title), toLowerCase(searchTerm))
                         \/ includes(toLowerCase(searchTerm), toLowerCase(title))
                    ELSE FALSE,
        cleanTitle |->
            CASE v = "pool" -> trim(RemoveAllCI(RemoveAllCI(title, "(foil)"), "foil"))
              [] v = "context" -> trim(RemoveAllCI(toLowerCase(title), "(foil)"))
              [] OTHER -> trim(RemoveAllCI(RemoveAllCI(toLowerCase(title), "(foil)"), "foil"))]

\* cards.map(el => ...).filter(Boolean): elements without a title are dropped
scrapeProducts(v, searchTerm, els) ==
    LET cut == sliceEls(v, els)
        cards == [i \in 1..Len(cut) |-> MakeCard(v, searchTerm, i, cut[i])]
    IN filter(cards, [i \in 1..Len(cut) |-> cards[i].title # ""])


-----------------------------------------------------------------------------
(* The synchronous part of fetchCardPrice that follows the scrape: matching, *)
(* selection, formatting.  Its outcome is [kind, text, set, exit]: kind       *)
(* "return" with the message, or "throw" with err.message; set tells whether *)
(* cache.set(cacheKey, {result: text, ...}) ran on the way; exit names the   *)
(* statement that ended it: "empty" (no products), "fallback" (the           *)
(* no-exact-match return) or "selection" (the composed message).             *)

MaxMessage == 390
KeptOnTruncation == 387

Return(text, set, exit) == [kind |-> "return", text |-> text, set |-> set, exit |-> exit]
Throw(text, exit) == [kind |-> "throw", text |-> text, set |-> FALSE, exit |-> exit]

\* the cut applied from MaxMessage characters on (what the claim on the exact
\* truncation must tell apart from truncate)
truncateEager(message) ==
    IF Len(message) >= MaxMessage THEN sliceTo(message, KeptOnTruncation) \o "..."
    ELSE message

\* if (message.length > 390) message = message.slice(0, 387) + "..."
truncate(message) ==
    IF Len(message) > MaxMessage THEN sliceTo(message, KeptOnTruncation) \o "..."
    ELSE message

\* the filter that yields matchingCards
matches(v, searchTerm, card) ==
    IF v = "context"
    THEN \/ includes(card.cleanTitle, toLowerCase(searchTerm))
         \/ fuzzyMatch(searchTerm, card.title)
         \/ fuzzyMatch(searchTerm, card.cleanTitle)
    ELSE LET normalizedSearch == StripNonWord(toLowerCase(searchTerm))
             normalizedTitle == StripNonWord(card.cleanTitle)
             normalizedFullTitle == StripNonWord(toLowerCase(card.title))
         IN \/ includes(normalizedTitle, normalizedSearch)
            \/ includes(normalizedFullTitle, normalizedSearch)
            \/ fuzzyMatch(searchTerm, card.title)
            \/ fuzzyMatch(searchTerm, card.cleanTitle)

matchingCardsOf(v, searchTerm, products) ==
    filter(products, [i \in 1..Len(products) |-> matches(v, searchTerm, products[i])])

noCardsMessage(chatUser, searchTerm) ==
    chatUser \o ", no product cards found for \"" \o searchTerm \o "\""

noResultsMessage(chatUser, searchTerm) ==
    chatUser \o ", no results found for \"" \o searchTerm \o "\""

noExactMatchMessage(chatUser, searchTerm, fallbackCard) ==
    chatUser \o ", no exact match for \"" \o searchTerm \o "\". Found: "
        \o fallbackCard.title \o " (" \o fallbackCard.setName \o ") | Price: "
        \o fallbackCard.market

\* the composition with the set name of the both-present branch taken from
\* the foil representative (what the claim on the message branches must tell
\* apart from selectionMessage)
selectionMessageMixed(chatUser, bestNonFoil, bestFoil) ==
    chatUser \o ", " \o
    (IF bestNonFoil # NoCard /\ bestFoil # NoCard
     THEN "Card: " \o bestNonFoil.cleanTitle \o " (" \o bestFoil.setName
            \o ") | Regular: " \o bestNonFoil.market \o " | Foil: " \o bestFoil.market
     ELSE IF bestNonFoil # NoCard
     THEN "Card: " \o bestNonFoil.title \o " (" \o bestNonFoil.setName
            \o ") | Market: " \o bestNonFoil.market \o " | Foil: Not found"
     ELSE IF bestFoil # NoCard
     THEN "Card: " \o bestFoil.cleanTitle \o " (" \o bestFoil.setName
            \o ") | Regular: Not found | Foil: " \o bestFoil.market
     ELSE "")

\* let message = `${chatUser}, `; if (bestNonFoil && bestFoil) ... else if ...
selectionMessage(chatUser, bestNonFoil, bestFoil) ==
    chatUser \o ", " \o
    (IF bestNonFoil # NoCard /\ bestFoil # NoCard
     THEN "Card: " \o bestNonFoil.cleanTitle \o " (" \o bestNonFoil.setName
            \o ") | Regular: " \o bestNonFoil.market \o " | Foil: " \o bestFoil.market
     ELSE IF bestNonFoil # NoCard
     THEN "Card: " \o bestNonFoil.title \o " (" \o bestNonFoil.setName
            \o ") | Market: " \o bestNonFoil.market \o " | Foil: Not found"
     ELSE IF bestFoil # NoCard
     THEN "Card: " \o bestFoil.cleanTitle \o " (" \o bestFoil.setName
            \o ") | Regular: Not found | Foil: " \o bestFoil.market
     ELSE "")

\* matchingCards -> the truncated selection message
selectAndFormat(chatUser, matchingCards) ==
    LET n == Len(matchingCards)
        nonFoilCards == filter(matchingCards, [i \in 1..n |-> ~matchingCards[i].isFoil])
        foilCards == filter(matchingCards, [i \in 1..n |-> matchingCards[i].isFoil])
        bestNonFoil == prioritizeMainSet(nonFoilCards)
        bestFoil == prioritizeMainSet(foilCards)
    IN truncate(selectionMessage(chatUser, bestNonFoil, bestFoil))

\* candidates.find(c => wantFoil ? c.isFoil : !c.isFoil), or NoCard
findByFoil(candidates, wantFoil) ==
    LET hit == filter(candidates, [i \in 1..Len(candidates) |->
                    candidates[i].isFoil = wantFoil])
    IN IF Len(hit) = 0 THEN NoCard ELSE hit[1]

\* src/server.js 128-157
pipelinePool(searchTerm, chatUser, products) ==
    IF Len(products) = 0 THEN Return(noResultsMessage(chatUser, searchTerm), TRUE, "empty")
    ELSE LET exactMatches == filter(products, [i \in 1..Len(products) |->
                                products[i].isMatch])
             candidates == IF Len(exactMatches) > 0 THEN exactMatches ELSE <<products[1]>>
             nonFoil == findByFoil(candidates, FALSE)
             foil == findByFoil(candidates, TRUE)
             body == IF nonFoil # NoCard /\ foil # NoCard
                     THEN nonFoil.cleanTitle \o " | Regular: " \o nonFoil.market
                            \o " | Foil: " \o foil.market
                     ELSE IF nonFoil # NoCard
                     THEN nonFoil.title \o " | Price: " \o nonFoil.market
                     ELSE IF foil # NoCard
                     THEN foil.cleanTitle \o " | Foil: " \o foil.market
                     ELSE products[1].title \o " | Price: " \o products[1].market
         IN Return(truncate(chatUser \o ", " \o body), TRUE, "selection")

\* src/server.js 349-398 ("race"), src/unnamed/part_004 495-551 ("cache"),
\* src/unnamed/part_003 56-114 ("launch"), src/unnamed/part_001 89-129
\* ("context": fallbackCard is assigned and never read, so an empty
\* matchingCards goes on to the selection)
pipelineFull(v, searchTerm, chatUser, products) ==
    IF Len(products) = 0
    THEN IF v = "launch" THEN Throw("No product cards found", "empty")
         ELSE Return(noCardsMessage(chatUser, searchTerm),
                     v \in {"cache", "context"}, "empty")
    ELSE LET matchingCards == matchingCardsOf(v, searchTerm, products)
             fallbackCard == products[1]
         IN IF v # "context" /\ Len(matchingCards) = 0
            THEN Return(noExactMatchMessage(chatUser, searchTerm, fallbackCard),
                        v = "cache", "fallback")
            ELSE Return(selectAndFormat(chatUser, matchingCards),
                        v \in {"cache", "context"}, "selection")

\* the statements that follow the scrape, on the array `products`
pipelineOn(v, searchTerm, chatUser, products) ==
    IF v = "pool" THEN pipelinePool(searchTerm, chatUser, products)
    ELSE pipelineFull(v, searchTerm, chatUser, products)

pipeline(v, searchTerm, chatUser, els) ==
    pipelineOn(v, searchTerm, chatUser, scrapeProducts(v, searchTerm, els))

\* the array `products` with the price sort applied to it in place (what the
\* claim on the untouched listings must tell apart from productsAfter)
productsSortedInPlace(v, searchTerm, products) ==
    sort(products, [i \in 1..Len(products) |-> parsePrice(products[i].market)])

\* What the array `products` holds when the pipeline has run. The pipeline
\* reads it (products.length, products.filter, products[0]); filter returns a
\* new array each time, and the receivers of the two in-place sorts are such
\* new arrays (mainSet, and the unnamed result of cards.filter), so no
\* statement writes to `products` or to an object it holds.
productsAfter(v, searchTerm, products) == products

\* the catch block of fetchCardPrice: the message returned for err
failureMessage(v, searchTerm, chatUser, errMessage) ==
    CASE v = "pool" -> chatUser \o ", failed to fetch \"" \o searchTerm \o "\""
      [] v = "context" -> chatUser \o ", failed to fetch card/product \""
                            \o searchTerm \o "\" - " \o errMessage
      [] OTHER -> chatUser \o ", failed to fetch card \"" \o searchTerm
                            \o "\" - " \o errMessage


-----------------------------------------------------------------------------
(* Response cache *)

\* which variants keep `const cache = new Map()`
HasCache(v) == v \in {"pool", "cache", "context"}

\* const CACHE_TTL = 60000 (src/server.js); the literal 30000 of the others
PoolCacheTtl == 60000
CacheTtl == 30000
Ttl(v) == IF v = "pool" THEN PoolCacheTtl ELSE CacheTtl

\* the age above which the setInterval sweep deletes an entry
PoolRetention == 60000
Retention == 60000
\* a retention window of half the lookup TTL (what the claim on the sweep
\* sparing fresh entries must tell apart from RetentionOf)
RetentionHalfTtl(v) == Ttl(v) \div 2

RetentionOf(v) == IF v = "pool" THEN PoolRetention ELSE Retention

\* the period of the setInterval sweep
SweepInterval == 60000

\* const cacheKey = searchTerm.toLowerCase().trim() / searchTerm.toLowerCase()
cacheKeyOf(v, searchTerm) ==
    IF v = "pool" THEN trim(toLowerCase(searchTerm)) ELSE toLowerCase(searchTerm)

\* what cache.get(key) gives for a key the Map does not hold
NoEntry == [result |-> "", timestamp |-> -1]

\* cache.get(cacheKey)
cacheGet(c, key) == IF key \in DOMAIN c THEN c[key] ELSE NoEntry

\* a write that keeps the timestamp of the entry it replaces (what the claim on
\* whole-entry writes must tell apart from cacheSet)
cacheSetKeepTime(c, key, result, t) ==
    [k \in DOMAIN c \cup {key} |->
        IF k = key
        THEN [result |-> result,
              timestamp |-> IF key \in DOMAIN c THEN c[key].timestamp ELSE t]
        ELSE c[k]]

\* cache.set(cacheKey, {result, timestamp: Date.now()})
cacheSet(c, key, result, t) ==
    [k \in DOMAIN c \cup {key} |->
        IF k = key THEN [result |-> result, timestamp |-> t] ELSE c[k]]

\* the lookup's test: cached && Date.now() - cached.timestamp < CACHE_TTL
\* the lookup with the comparison weakened to <= (what the claims on freshness
\* must tell apart from isFresh)
isFreshInclusive(v, cached, t) == cached # NoEntry /\ t - cached.timestamp <= Ttl(v)

\* the lookup without the age test (what the claim on stale entries must tell
\* apart from isFresh)
isFreshAlways(v, cached, t) == cached # NoEntry

\* if (cached && Date.now() - cached.timestamp < CACHE_TTL)
isFresh(v, cached, t) == cached # NoEntry /\ t - cached.timestamp < Ttl(v)

\* the sweep's test with the comparison weakened to >= (what the claim on the
\* sweep must tell apart from isExpired)
isExpiredEager(v, entry, t) == t - entry.timestamp >= RetentionOf(v)

\* a sweep test that never finds an entry expired (what the claim on eviction
\* must tell apart from isExpired)
isExpiredNever(v, entry, t) == FALSE

\* the sweep's test: now - value.timestamp > retention
isExpired(v, entry, t) == t - entry.timestamp > RetentionOf(v)

\* return cached.result.replace("Streamer", chatUser)
cachedAnswer(cached, chatUser) == replace(cached.result, "Streamer", chatUser)

-----------------------------------------------------------------------------
(* The server: route handler GET /price and fetchCardPrice, per request *)

Requests == 1..MaxReq

\* the response that has not been sent
\* (count is the number of bodies that went out on the connection)
NoRes == [sent |-> FALSE, text |-> "", count |-> 0]
Res(text) == [sent |-> TRUE, text |-> text, count |-> 1]

\* a request that has not arrived
NewReq == [pc |-> "new", card |-> "", user |-> "", path |-> "", startAt |-> 0,
           cached |-> NoEntry, exit |-> "", stored |-> NoEntry, msg |-> "",
           res |-> NoRes, timedOut |-> ""]

LongQuery == Rep("z", LongLen)

\* req.query.card, and req.query.user || "Streamer"
Cards == {"mew", "Mew ", " ", ""}
Users == {"Streamer", "Bob"}

El(t, p, s) == [title |-> t, price |-> p, set |-> s]
ElMew == El(<<"Mew">>, <<"$5.00">>, <<"Base Set">>)
ElMewFoil == El(<<"Mew (Foil)">>, <<"$9.50">>, <<"Base Set">>)

\* what the scrape of the result page may hold
ServerScrapes == {<< >>, <<ElMew>>, <<ElMew, ElMewFoil>>}
\* err.message of a failed launch, navigation, selector wait or scrape
ScrapeErrors == {"Timeout 3000ms exceeded"}
\* err.message of a failed page.close() / browser.close()
CloseErrors == {"Target closed"}

promptMessage(user) == user \o ", please provide a card name!"

\* the blank test without trim (what the claim on blank queries must tell
\* apart from isBlank)
isBlankEmptyOnly(card) == card = ""

\* if (!card.trim())
isBlank(card) == trim(card) = ""

\* What is left to await once the pipeline has ended: "none" (returnPage is
\* synchronous; the launch variant's early returns close nothing, and its
\* catch block swallows the rejection of its own close), "finally" (an awaited
\* close in the finally block, whose rejection replaces the returned message),
\* "caught" (await browser.close() inside the try block, before the message is
\* composed: the catch block turns its rejection into the failure message)
cleanupKind(v, outcome) ==
    CASE v = "pool" -> "none"
      [] v \in {"race", "cache", "context"} -> "finally"
      [] v = "launch" -> IF outcome.exit = "selection" THEN "caught" ELSE "none"

\* The route handler when fetchCardPrice settles: res.send(msg); on a rejection
\* only the race variant's handler has a catch block, the others send nothing
timedOutMessage(user) == user \o ", request timed out - try a shorter card name"

handlerSend(v, user, settled, msg) ==
    IF settled = "resolved" THEN Res(msg)
    ELSE IF v = "race" THEN Res(timedOutMessage(user))
    ELSE NoRes

\* a response object that lets a second body out after the first
sendOnAnyway(res, text) == [sent |-> TRUE, text |-> text, count |-> res.count + 1]

\* res.type("text/plain").send(text) on the response res: once the headers
\* are out, setting a header throws and nothing more is sent
sendOn(res, text) == IF res.sent THEN res ELSE Res(text)

\* what request r has answered once fetchCardPrice settles: when the 6500 ms
\* timer has already settled the Promise.race, the handler has sent its
\* message and the late settlement sends nothing
respond(r, settled, msg) ==
    IF req[r].timedOut # "" THEN req[r].res
    ELSE IF handlerSend(variant, req[r].user, settled, msg).sent
    THEN sendOn(req[r].res, handlerSend(variant, req[r].user, settled, msg).text)
    ELSE req[r].res

\* the callers of getBrowser: 0 is the pre-warm call of app.listen, the others
\* are requests
Callers0 == 0..MaxReq

\* a caller that has not called yet
NewCaller == [pc |-> "idle", launch |-> 0, browser |-> 0, i |-> 0, page |-> 0,
              obtained |-> 0, released |-> 0, exit |-> ""]

\* no browser, no page, nobody calling
PoolIdle ==
    /\ browserInstance = 0 /\ launches = 0 /\ pagePool = << >> /\ pagesMade = 0
    /\ caller = [c \in Callers0 |-> NewCaller]

Init ==
    /\ variant \in Variants
    /\ now = 0
    /\ ticks = 0
    /\ sweeps = 0
    /\ cache = [k \in {} |-> NoEntry]
    /\ req = [r \in Requests |-> NewReq]
    /\ ppText = "" /\ ppOut = Null
    /\ pmCards = << >> /\ pmOut = NoCard
    /\ plIn = << >> /\ plOut = << >>
    /\ fmIn = << >> /\ fmOut = << >>
    /\ PoolIdle

\* GET /price arrives: the blank check, then fetchCardPrice up to its first await
\* (a cache hit returns at once and the handler sends the answer)
Request(r, card, user) ==
    /\ req[r].pc = "new"
    /\ IF r = 1 THEN TRUE ELSE req[r - 1].pc # "new"
    /\ LET base == [req[r] EXCEPT !.card = card, !.user = user, !.startAt = now]
           cached == IF HasCache(variant) THEN cacheGet(cache, cacheKeyOf(variant, card))
                     ELSE NoEntry
       IN req' = [req EXCEPT ![r] =
            IF isBlank(card)
            THEN [base EXCEPT !.pc = "done", !.path = "blank",
                              !.res = Res(promptMessage(user))]
            ELSE IF HasCache(variant) /\ isFresh(variant, cached, now)
            THEN [base EXCEPT !.pc = "done", !.path = "hit", !.cached = cached,
                              !.msg = cachedAnswer(cached, user),
                              !.res = Res(cachedAnswer(cached, user))]
            ELSE [base EXCEPT !.pc = "scraping", !.path = "miss", !.cached = cached]]
    /\ UNCHANGED <<variant, now, ticks, cache, sweeps, ppVars, pmVars, plVars, fmVars, poolVars>>

\* fetchCardPrice after the message msg is known: straight to the handler, or
\* on to the awaited close
Settle(r, exit, msg, stored, cleanup) ==
    IF cleanup = "none"
    THEN [req[r] EXCEPT !.pc = "done", !.exit = exit, !.msg = msg, !.stored = stored,
                        !.res = respond(r, "resolved", msg)]
    ELSE [req[r] EXCEPT !.pc = cleanup, !.exit = exit, !.msg = msg, !.stored = stored]

\* the scrape resolves with the elements els: the pipeline runs to its end
ListingsArrive(r, els) ==
    /\ req[r].pc = "scraping"
    /\ \E outcome \in {pipeline(variant, req[r].card, req[r].user, els)} :
       \E msg \in {IF outcome.kind = "return" THEN outcome.text
                   ELSE failureMessage(variant, req[r].card, req[r].user, outcome.text)} :
          /\ cache' = IF outcome.set
                      THEN cacheSet(cache, cacheKeyOf(variant, req[r].card), outcome.text, now)
                      ELSE cache
          /\ req' = [req EXCEPT ![r] =
                Settle(r, outcome.exit, msg,
                       IF outcome.set THEN [result |-> outcome.text, timestamp |-> now]
                       ELSE NoEntry,
                       cleanupKind(variant, outcome))]
    /\ UNCHANGED <<variant, now, ticks, sweeps, ppVars, pmVars, plVars, fmVars, poolVars>>

\* the failure message written to the cache like a result (what the claim on
\* failed resolutions must tell apart from cacheAfterCatch)
cacheWithFailure(c, key, result, t) == cacheSet(c, key, result, t)

\* the cache when the catch block has run: it composes and returns the
\* failure message and holds no cache.set, cache.delete or cache.clear
cacheAfterCatch(c, key, result, t) == c

\* the launch, the navigation, the selector wait or the scrape rejects with err:
\* the catch block builds the failure message, the finally block follows
ListingsFail(r, errMessage) ==
    /\ req[r].pc = "scraping"
    /\ cache' = cacheAfterCatch(cache, cacheKeyOf(variant, req[r].card),
                                failureMessage(variant, req[r].card, req[r].user, errMessage),
                                now)
    /\ req' = [req EXCEPT ![r] =
            Settle(r, "scrape",
                   failureMessage(variant, req[r].card, req[r].user, errMessage),
                   NoEntry, cleanupKind(variant, Throw(errMessage, "scrape")))]
    /\ UNCHANGED <<variant, now, ticks, sweeps, ppVars, pmVars, plVars, fmVars, poolVars>>

\* page.waitForSelector rejects in the race variant: its own catch block
\* returns at once, the finally block follows
noResultsTimeoutMessage(chatUser, searchTerm) ==
    chatUser \o ", no results found for \"" \o searchTerm \o "\" (timeout)"

SelectorTimeout(r) ==
    /\ variant = "race"
    /\ req[r].pc = "scraping"
    /\ req' = [req EXCEPT ![r] =
            Settle(r, "selector", noResultsTimeoutMessage(req[r].user, req[r].card),
                   NoEntry, "finally")]
    /\ UNCHANGED <<variant, now, ticks, cache, sweeps, ppVars, pmVars, plVars, fmVars, poolVars>>

\* setTimeout(() => reject(new Error("Overall timeout")), 6500) fires while
\* fetchCardPrice is pending: the Promise.race rejects, the handler's catch
\* block answers; fetchCardPrice itself goes on (timedOut keeps where it was).
\* The navigation may take up to 6000 ms and the selector wait up to 5000 ms,
\* so the timer can fire at either await; `now` advances in coarser steps and
\* does not order the two.
OverallTimeout(r) ==
    /\ variant = "race"
    /\ req[r].pc \in {"scraping", "finally"}
    /\ req[r].timedOut = ""
    /\ req' = [req EXCEPT ![r] =
            [req[r] EXCEPT !.timedOut = req[r].pc, !.res = sendOn(req[r].res, timedOutMessage(req[r].user))]]
    /\ UNCHANGED <<variant, now, ticks, cache, sweeps, ppVars, pmVars, plVars, fmVars, poolVars>>

\* the awaited close resolves: fetchCardPrice resolves with the message
CloseOk(r) ==
    /\ req[r].pc \in {"finally", "caught"}
    /\ req' = [req EXCEPT ![r] =
            [req[r] EXCEPT !.pc = "done",
                           !.res = respond(r, "resolved", req[r].msg)]]
    /\ UNCHANGED <<variant, now, ticks, cache, sweeps, ppVars, pmVars, plVars, fmVars, poolVars>>

\* the awaited close rejects with err: from the finally block the rejection
\* replaces the return value; inside the try block the catch block answers
CloseFail(r, errMessage) ==
    /\ req[r].pc \in {"finally", "caught"}
    /\ req' = [req EXCEPT ![r] =
            IF req[r].pc = "finally"
            THEN [req[r] EXCEPT !.pc = "rejected", !.msg = "",
                                !.res = respond(r, "rejected", "")]
            ELSE LET msg == failureMessage(variant, req[r].card, req[r].user, errMessage)
                 IN [req[r] EXCEPT !.pc = "done", !.msg = msg,
                                   !.res = respond(r, "resolved", msg)]]
    /\ UNCHANGED <<variant, now, ticks, cache, sweeps, ppVars, pmVars, plVars, fmVars, poolVars>>

\* time passes
ClockSteps == {CacheTtl}
Tick(d) ==
    /\ ticks < MaxTicks
    /\ ticks' = ticks + 1
    /\ now' = now + d
    /\ UNCHANGED <<variant, cache, req, sweeps, ppVars, pmVars, plVars, fmVars, poolVars>>

\* setInterval(() => { for (const [key, value] of cache.entries()) ... }, 60000)
Sweep ==
    /\ HasCache(variant)
    /\ now >= (sweeps + 1) * SweepInterval
    /\ sweeps' = sweeps + 1
    /\ cache' = [k \in {k \in DOMAIN cache : ~isExpired(variant, cache[k], now)} |-> cache[k]]
    /\ UNCHANGED <<variant, now, ticks, req, ppVars, pmVars, plVars, fmVars, poolVars>>

Next ==
    \/ \E r \in Requests, card \in Cards, user \in Users : Request(r, card, user)
    \/ \E r \in Requests, els \in ServerScrapes : ListingsArrive(r, els)
    \/ \E r \in Requests, e \in ScrapeErrors : ListingsFail(r, e)
    \/ \E r \in Requests : SelectorTimeout(r)
    \/ \E r \in Requests : OverallTimeout(r)
    \/ \E r \in Requests : CloseOk(r)
    \/ \E r \in Requests, e \in CloseErrors : CloseFail(r, e)
    \/ \E d \in ClockSteps : Tick(d)
    \/ Sweep

Spec == Init /\ [][Next]_vars

-----------------------------------------------------------------------------
(* The timeout-protected server on its own (src/server.js 228-475), with the *)
(* response timeout its middleware arms on every request                     *)

\* the body the response timeout sends (with status 408)
responseTimeoutMessage == "Request timeout - try again"

\* res.setTimeout(7000, () => res.status(408).type('text/plain').send(...))
\* fires for a request that has had no answer. The handler's 6500 ms timer is
\* armed in the same turn of the event loop; `now` advances in coarser steps
\* and does not order the two, so either may come first here.
ResponseTimeout(r) ==
    /\ variant = "race"
    /\ req[r].pc \in {"scraping", "finally"}
    /\ ~req[r].res.sent
    /\ req' = [req EXCEPT ![r].res = sendOn(req[r].res, responseTimeoutMessage)]
    /\ UNCHANGED <<variant, now, ticks, cache, sweeps, ppVars, pmVars, plVars, fmVars, poolVars>>

InitRace == Init /\ variant = "race"

NextRace ==
    \/ \E r \in Requests, card \in Cards, user \in Users : Request(r, card, user)
    \/ \E r \in Requests, els \in ServerScrapes : ListingsArrive(r, els)
    \/ \E r \in Requests, e \in ScrapeErrors : ListingsFail(r, e)
    \/ \E r \in Requests : SelectorTimeout(r)
    \/ \E r \in Requests : OverallTimeout(r)
    \/ \E r \in Requests : ResponseTimeout(r)
    \/ \E r \in Requests : CloseOk(r)
    \/ \E r \in Requests, e \in CloseErrors : CloseFail(r, e)

SpecRace == InitRace /\ [][NextRace]_vars

-----------------------------------------------------------------------------
(* The caching servers on their own: the same handlers, under queries that   *)
(* meet in one cache key and a clock that reaches the sweep's retention      *)

CachingVariants == {v \in Variants : HasCache(v)}
CacheCards == {"mew", "Mew "}
CacheUsers == {"Bob"}
CacheScrapes == {<< >>, <<ElMew>>}
CacheClockSteps == {CacheTtl, SweepInterval}

InitCache ==
    /\ Init
    /\ variant \in CachingVariants

NextCache ==
    \/ \E r \in Requests, card \in CacheCards, user \in CacheUsers : Request(r, card, user)
    \/ \E r \in Requests, els \in CacheScrapes : ListingsArrive(r, els)
    \/ \E r \in Requests, e \in ScrapeErrors : ListingsFail(r, e)
    \/ \E r \in Requests : CloseOk(r)
    \/ \E r \in Requests, e \in CloseErrors : CloseFail(r, e)
    \/ \E d \in CacheClockSteps : Tick(d)
    \/ Sweep

SpecCache == InitCache /\ [][NextCache]_vars

\* setInterval keeps the sweep scheduled: a sweep that is due does run
SpecCacheLive == SpecCache /\ WF_vars(Sweep)

-----------------------------------------------------------------------------
(* parsePrice on its own: a price text is drawn, parsePrice is applied *)

\* the server at rest, for the specifications that exercise one function
ServerIdle ==
    /\ variant = "race" /\ now = 0 /\ ticks = 0 /\ sweeps = 0
    /\ cache = [k \in {} |-> NoEntry]
    /\ req = [r \in Requests |-> NewReq]

\* no value yet
Pending == [kind |-> "pending"]

\* innerText of a price element: a currency mark, a body, a trailing note
PricePrefixes == {"", "$", "US $"}
PriceBodies == {"", "5", "5.00", "0.99", "12.50", ".5", "5.", "1.2.3", "1,234.50", "0",
                "N/A", "Out of stock", "-", "...", "n/a"}
PriceSuffixes == {"", " each"}
PriceTexts == {p \o b \o q : p \in PricePrefixes, b \in PriceBodies, q \in PriceSuffixes}

InitParse ==
    /\ ServerIdle
    /\ ppText \in PriceTexts /\ ppOut = Pending
    /\ pmCards = << >> /\ pmOut = NoCard
    /\ plIn = << >> /\ plOut = << >>
    /\ fmIn = << >> /\ fmOut = << >>
    /\ PoolIdle

ParsePrice ==
    /\ ppOut = Pending
    /\ ppOut' = parsePrice(ppText)
    /\ UNCHANGED <<serverVars, ppText, pmVars, plVars, fmVars, poolVars>>

SpecParse == InitParse /\ [][ParsePrice]_vars

-----------------------------------------------------------------------------
(* prioritizeMainSet on its own: a foil or non-foil subset is drawn, the     *)
(* selector of the full pipeline ("full") or of the puppeteer route          *)
(* ("puppeteer") is applied                                                  *)

Markets == {"$5.00", "$2.00", "$0.00", "Out of stock", "N/A"}
Selectors == {"full", "puppeteer"}

\* the listings of a subset: position (identity), price text, special print
Listing(pos, market, isSpecial) == [pos |-> pos, market |-> market, isSpecial |-> isSpecial]
Subsets ==
    UNION {{[i \in 1..n |-> Listing(i, m[i], sp[i])] :
                m \in [1..n -> Markets], sp \in [1..n -> BOOLEAN]} : n \in 0..MaxCards}

InitSelect ==
    /\ ServerIdle
    /\ ppText = "" /\ ppOut = Null
    /\ pmCards \in [impl : Selectors, cards : Subsets] /\ pmOut = Pending
    /\ plIn = << >> /\ plOut = << >>
    /\ fmIn = << >> /\ fmOut = << >>
    /\ PoolIdle

Prioritize ==
    /\ pmOut = Pending
    /\ pmOut' = IF pmCards.impl = "full" THEN prioritizeMainSet(pmCards.cards)
                ELSE prioritizeMainSetNA(pmCards.cards)
    /\ UNCHANGED <<serverVars, ppVars, pmCards, plVars, fmVars, poolVars>>

SpecSelect == InitSelect /\ [][Prioritize]_vars

-----------------------------------------------------------------------------
(* fetchCardPrice from the scrape to the message, on its own: a variant, a   *)
(* query, a user and what the scrape yields are drawn (elements, or the      *)
(* error it rejects with), and the try/catch of fetchCardPrice runs          *)

ElNoTitle == El(<< >>, <<"$1.00">>, <<"Base Set">>)
ElPromo == El(<<"Mew">>, <<"$2.00">>, <<"Promo Pack">>)
ElOutOfStock == El(<<"Mew">>, <<"Out of stock">>, <<"Jungle">>)
ElNoPrice == El(<<"Mewtwo">>, << >>, << >>)
ElLong == El(<<"Mew " \o Rep("x", LongLen)>>, <<"$3.00">>, <<"Base Set">>)
\* a title that brings the only-non-foil message of caller "Bob" to MaxMessage
EdgeMessageRest == "Bob, Card: Mew  (Base Set) | Market: $3.00 | Foil: Not found"
ElEdge == El(<<"Mew " \o Rep("x", MaxMessage - Len(EdgeMessageRest))>>, <<"$3.00">>,
             <<"Base Set">>)
Elements == {ElMew, ElMewFoil, ElNoTitle, ElPromo, ElOutOfStock, ElNoPrice, ElLong, ElEdge}

Scrapes ==
    {[els |-> e, err |-> ""] : e \in UNION {[1..n -> Elements] : n \in 0..MaxEls}}
        \cup {[els |-> << >>, err |-> e] : e \in ScrapeErrors}

Queries == {"mew", "mew two", "pikachu", LongQuery}
Callers == {"Bob"}

InitPipeline ==
    /\ ServerIdle
    /\ ppText = "" /\ ppOut = Null
    /\ pmCards = << >> /\ pmOut = NoCard
    /\ plIn \in [v : Variants, searchTerm : Queries, chatUser : Callers, scrape : Scrapes]
    /\ plOut = Pending
    /\ fmIn = << >> /\ fmOut = << >>
    /\ PoolIdle

\* Whether close() has been called on the browser fetchCardPrice launched
\* for the request (src/unnamed/part_003 line 17) when it returns: the
\* selection path awaits browser.close() before composing (line 102), every
\* throw lands in the catch block, which closes (line 117); the early return
\* of line 86 is preceded by no close. The other variants keep their browser.
browserClosed(v, outcome) ==
    /\ v = "launch"
    /\ \/ outcome.kind = "throw"
       \/ outcome.kind = "return" /\ outcome.exit = "selection"

\* try { ... } catch (err) { return failure message }: msg is the message
\* fetchCardPrice has to return when the body has run
Resolve ==
    /\ plOut = Pending
    /\ \E outcome \in {IF plIn.scrape.err # "" THEN Throw(plIn.scrape.err, "scrape")
                       ELSE pipeline(plIn.v, plIn.searchTerm, plIn.chatUser,
                                     plIn.scrape.els)} :
          plOut' = [kind |-> outcome.kind, text |-> outcome.text, set |-> outcome.set,
                    exit |-> outcome.exit,
                    msg |-> IF outcome.kind = "return" THEN outcome.text
                            ELSE failureMessage(plIn.v, plIn.searchTerm, plIn.chatUser,
                                                outcome.text),
                    listings |-> IF plIn.scrape.err # "" THEN << >>
                                 ELSE productsAfter(plIn.v, plIn.searchTerm,
                                        scrapeProducts(plIn.v, plIn.searchTerm,
                                                       plIn.scrape.els)),
                    browserClosed |-> browserClosed(plIn.v, outcome),
                    again |-> Pending]
    /\ UNCHANGED <<serverVars, ppVars, pmVars, plIn, fmVars, poolVars>>

\* the same statements run once more, with the same query and user, on the
\* array the first run left
ResolveAgain ==
    /\ plOut # Pending
    /\ plIn.scrape.err = ""
    /\ plOut.again = Pending
    /\ \E outcome \in {pipelineOn(plIn.v, plIn.searchTerm, plIn.chatUser, plOut.listings)} :
          plOut' = [plOut EXCEPT
                      !.again = outcome,
                      !.listings = productsAfter(plIn.v, plIn.searchTerm, plOut.listings)]
    /\ UNCHANGED <<serverVars, ppVars, pmVars, plIn, fmVars, poolVars>>

SpecPipeline == InitPipeline /\ [][Resolve \/ ResolveAgain]_vars

-----------------------------------------------------------------------------
(* fuzzyMatch on its own: a query of 1..MaxWords words and a title are drawn, *)
(* fuzzyMatch is applied                                                      *)

\* the value a predicate returned
Bool(b) == [kind |-> "bool", value |-> b]

RECURSIVE join(_, _)
\* words.join(sep)
join(words, sep) ==
    IF Len(words) = 0 THEN ""
    ELSE IF Len(words) = 1 THEN words[1]
    ELSE words[1] \o sep \o join(Tail(words), sep)

QueryWords == {"mew", "Two", "ex"}
FuzzyQueries ==
    {join(ws, " ") : ws \in UNION {[1..n -> QueryWords] : n \in 1..MaxWords}}
FuzzyTitles == {"Mew", "Mewtwo EX", "Mex  Twos", "Pikachu", ""}

InitFuzzy ==
    /\ ServerIdle
    /\ ppText = "" /\ ppOut = Null
    /\ pmCards = << >> /\ pmOut = NoCard
    /\ plIn = << >> /\ plOut = << >>
    /\ fmIn \in [searchTerm : FuzzyQueries, cardTitle : FuzzyTitles]
    /\ fmOut = Pending
    /\ PoolIdle

FuzzyMatch ==
    /\ fmOut = Pending
    /\ fmOut' = Bool(fuzzyMatch(fmIn.searchTerm, fmIn.cardTitle))
    /\ UNCHANGED <<serverVars, ppVars, pmVars, plVars, fmIn, poolVars>>

SpecFuzzy == InitFuzzy /\ [][FuzzyMatch]_vars

-----------------------------------------------------------------------------
(* The shared browser and the page pool: getBrowser, getPage, returnPage and
   the try/finally of fetchCardPrice, one action per resumption of an await.
   "pool" is src/server.js 1-226 (src/unnamed/part_002 has the same three
   functions with the literal 3), "race" is src/server.js 228-475, which keeps
   the browser and opens a page per request. *)

PoolVariants == {"pool", "race"}

\* const MAX_PAGES = 3
MAX_PAGES == 3

\* the ways a scrape that holds a page can end
Outcomes == {"selection", "empty", "error", "timeout"}

\* what pagePool.pop() leaves in the array, kept as it is by a getPage that
\* only reads the last page
pagePoolPeek(pool) == pool

\* what pagePool.pop() leaves in the array
pagePoolPop(pool) == SubSeq(pool, 1, Len(pool) - 1)

\* returnPage(page): the page goes back while the pool is short of MAX_PAGES,
\* otherwise it is closed
returnPage(pool, page) == IF Len(pool) < MAX_PAGES THEN Append(pool, page) ELSE pool

\* a finally block that lets go of the page only when the scrape did not throw
releasedUnlessError(outcome, released) ==
    IF outcome = "error" THEN released ELSE released + 1

\* finally { if (page) returnPage(page) } / finally { if (page) await
\* page.close() }: the page is let go once, whatever the try block did
releasedAfter(outcome, released) == released + 1

\* `pagePool.pop() || await browserInstance.newPage()` up to its await: the
\* caller takes the last idle page, or starts creating one
takePage(rec, pool) ==
    IF Len(pool) > 0
    THEN [pool |-> pagePoolPop(pool),
          rec |-> [rec EXCEPT !.pc = "using", !.page = pool[Len(pool)],
                              !.obtained = rec.obtained + 1]]
    ELSE [pool |-> pool, rec |-> [rec EXCEPT !.pc = "creating"]]

\* the pre-warm call of app.listen is the first caller of getBrowser of the
\* pooled server; the other server starts with nothing
InitPool ==
    /\ variant \in PoolVariants
    /\ now = 0 /\ ticks = 0 /\ sweeps = 0
    /\ cache = [k \in {} |-> NoEntry]
    /\ req = [r \in Requests |-> NewReq]
    /\ ppText = "" /\ ppOut = Null
    /\ pmCards = << >> /\ pmOut = NoCard
    /\ plIn = << >> /\ plOut = << >>
    /\ fmIn = << >> /\ fmOut = << >>
    /\ browserInstance = 0 /\ pagePool = << >> /\ pagesMade = 0
    /\ launches = IF variant = "pool" THEN 1 ELSE 0
    /\ caller = [c \in Callers0 |->
                    IF c = 0 /\ variant = "pool"
                    THEN [NewCaller EXCEPT !.pc = "launching", !.launch = 1]
                    ELSE NewCaller]

\* a request reaches fetchCardPrice: a cache hit returns at once; otherwise
\* getBrowser reads browserInstance and either awaits a launch of its own or
\* goes on to take a page
PoolCall(c, hit) ==
    /\ c \in Requests
    /\ caller[c].pc = "idle"
    /\ hit => HasCache(variant)
    /\ IF hit
       THEN /\ caller' = [caller EXCEPT ![c].pc = "done", ![c].exit = "hit"]
            /\ UNCHANGED <<launches, pagePool>>
       ELSE IF browserInstance = 0
       THEN /\ launches' = launches + 1
            /\ caller' = [caller EXCEPT ![c].pc = "launching",
                                        ![c].launch = launches + 1]
            /\ UNCHANGED pagePool
       ELSE IF variant = "pool"
       THEN /\ \E t \in {takePage(caller[c], pagePool)} :
                /\ pagePool' = t.pool
                /\ caller' = [caller EXCEPT ![c] = t.rec]
            /\ UNCHANGED launches
       ELSE /\ caller' = [caller EXCEPT ![c].pc = "creating",
                                        ![c].browser = browserInstance]
            /\ UNCHANGED <<launches, pagePool>>
    /\ UNCHANGED <<browserInstance, pagesMade, serverVars, ppVars, pmVars, plVars, fmVars>>

\* chromium.launch resolves: browserInstance is assigned, and the caller goes
\* on to pre-create pages ("pool") or to open its page ("race")
LaunchOk(c) ==
    /\ caller[c].pc = "launching"
    /\ browserInstance' = caller[c].launch
    /\ caller' = [caller EXCEPT
                    ![c].pc = IF variant = "pool" THEN "warming" ELSE "creating",
                    ![c].browser = caller[c].launch]
    /\ UNCHANGED <<launches, pagePool, pagesMade, serverVars, ppVars, pmVars, plVars, fmVars>>

\* chromium.launch rejects: getBrowser rejects, no page was obtained
LaunchFail(c) ==
    /\ caller[c].pc = "launching"
    /\ caller' = [caller EXCEPT ![c].pc = "done", ![c].exit = "launchFailed"]
    /\ UNCHANGED <<browserInstance, launches, pagePool, pagesMade, serverVars, ppVars,
                   pmVars, plVars, fmVars>>

\* one turn of the pre-creation loop: the awaited newPage resolves and the
\* page is pushed; after the last turn getBrowser returns and a request goes
\* straight on to take a page
WarmPage(c) ==
    /\ caller[c].pc = "warming"
    /\ pagesMade' = pagesMade + 1
    /\ \E pushed \in {Append(pagePool, pagesMade + 1)} :
       \E rec \in {[caller[c] EXCEPT !.i = caller[c].i + 1]} :
         IF rec.i < MAX_PAGES
         THEN /\ pagePool' = pushed
              /\ caller' = [caller EXCEPT ![c] = rec]
         ELSE IF c = 0
         THEN /\ pagePool' = pushed
              /\ caller' = [caller EXCEPT ![c] = [rec EXCEPT !.pc = "done",
                                                             !.exit = "warmed"]]
         ELSE \E t \in {takePage(rec, pushed)} :
                /\ pagePool' = t.pool
                /\ caller' = [caller EXCEPT ![c] = t.rec]
    /\ UNCHANGED <<browserInstance, launches, serverVars, ppVars, pmVars, plVars, fmVars>>

\* the awaited newPage of a request resolves: the request holds a new page
NewPage(c) ==
    /\ caller[c].pc = "creating"
    /\ pagesMade' = pagesMade + 1
    /\ caller' = [caller EXCEPT ![c].pc = "using", ![c].page = pagesMade + 1,
                                ![c].obtained = caller[c].obtained + 1]
    /\ UNCHANGED <<browserInstance, launches, pagePool, serverVars, ppVars, pmVars,
                   plVars, fmVars>>

\* the try block of fetchCardPrice ends in one of its ways and the finally
\* block runs: returnPage(page) in "pool", await page.close() in "race"
Finish(c, outcome) ==
    /\ caller[c].pc = "using"
    /\ pagePool' = IF variant = "pool" THEN returnPage(pagePool, caller[c].page)
                   ELSE pagePool
    /\ caller' = [caller EXCEPT ![c].pc = "done", ![c].exit = outcome,
                                ![c].released = releasedAfter(outcome, caller[c].released)]
    /\ UNCHANGED <<browserInstance, launches, pagesMade, serverVars, ppVars, pmVars,
                   plVars, fmVars>>

NextPool ==
    \E c \in Callers0 :
        \/ \E hit \in BOOLEAN : PoolCall(c, hit)
        \/ LaunchOk(c)
        \/ LaunchFail(c)
        \/ WarmPage(c)
        \/ NewPage(c)
        \/ \E outcome \in Outcomes : Finish(c, outcome)

SpecPool == InitPool /\ [][NextPool]_vars

-----------------------------------------------------------------------------
(* Claims *)

\* C1: every string fetchCardPrice returns is at most 390 characters long, on
\* every path: no listings, no exact match, selection, upstream failure.
C1_MessageWithinLimit == plOut # Pending => Len(plOut.msg) <= MaxMessage

\* a request that reached fetchCardPrice
Called(r) == req[r].path \in {"hit", "miss"}

C3_HitAddressedToCaller ==
    \A r \in Requests :
        req[r].path = "hit" =>
            sliceTo(req[r].msg, Len(req[r].user) + 2) = req[r].user \o ", "

\* C4: fetchCardPrice never rejects, whatever fails in the listing source or in
\* the cleanup that follows, so the handler always has a message to send.
C4_NeverRejects == \A r \in Requests : req[r].pc # "rejected"

\* whether the variant's own matching step keeps the listing
passesMatcher(v, searchTerm, card) ==
    IF v = "pool" THEN card.isMatch ELSE matches(v, searchTerm, card)

\* the listings normalized from what the scrape of the pipeline input yielded
NormalizedListings == scrapeProducts(plIn.v, plIn.searchTerm, plIn.scrape.els)

\* C5: when a listing was normalized and none passes the matcher, the response
\* is labeled "no exact match" and names the title, set name and price text of
\* the first normalized listing.
C5_FallbackNamesFirstListing ==
    (plOut # Pending /\ plIn.scrape.err = "") =>
        LET products == NormalizedListings
        IN (/\ Len(products) > 0
            /\ \A i \in 1..Len(products) :
                  ~passesMatcher(plIn.v, plIn.searchTerm, products[i]))
           => /\ plOut.kind = "return"
              /\ includes(plOut.msg, "no exact match")
              /\ includes(plOut.msg, products[1].title)
              /\ includes(plOut.msg, products[1].setName)
              /\ includes(plOut.msg, products[1].market)

\* C6: when the scrape yields no usable record the response is
\* '{user}, no product cards found for "{query}"', produced as a normal result
\* and not through the error path.
C6_NoCardsIsNormalResult ==
    (plOut # Pending /\ plIn.scrape.err = "" /\ Len(NormalizedListings) = 0)
        => /\ plOut.kind = "return"
           /\ plOut.msg = noCardsMessage(plIn.chatUser, plIn.searchTerm)

\* priceValue as the design defines it (a price text that does not parse is
\* null), and the comparison of two of them
priceValue(card) ==
    IF card.market = "" \/ card.market = "N/A" THEN Null
    ELSE LET v == parseFloat(KeepPriceChars(card.market))
         IN IF v.kind = "NaN" THEN Null ELSE v
isPriced(card) == priceValue(card) # Null
isMainSetPriced(card) == ~card.isSpecial /\ isPriced(card)
cheaperOrEqual(a, b) == SubSign(priceValue(a), priceValue(b)) <= 0
sameRank(a, b) == SubSign(priceValue(a), priceValue(b)) = 0
SubsetIdx == 1..Len(pmCards.cards)

\* C7: on a subset holding a non-special listing with a known price,
\* prioritizeMainSet returns a non-special priced listing of minimal price
\* among those, the first in scan order among the ones tied at the minimum.
C7_CheapestMainSetFirst ==
    (pmOut # Pending /\ \E i \in SubsetIdx : isMainSetPriced(pmCards.cards[i]))
        => /\ pmOut \in {pmCards.cards[i] : i \in SubsetIdx}
           /\ isMainSetPriced(pmOut)
           /\ \A i \in SubsetIdx :
                 isMainSetPriced(pmCards.cards[i]) =>
                    /\ cheaperOrEqual(pmOut, pmCards.cards[i])
                    /\ sameRank(pmOut, pmCards.cards[i]) => pmOut.pos <= i

\* C8: on a subset without a non-special priced listing prioritizeMainSet
\* returns the lowest-priced of the priced listings; when none is priced, the
\* first element; and null exactly when the subset is empty.
C8_FallbackTiers ==
    pmOut # Pending =>
        LET cards == pmCards.cards
        IN /\ pmOut = NoCard <=> Len(cards) = 0
           /\ (/\ \A i \in SubsetIdx : ~isMainSetPriced(cards[i])
               /\ \E i \in SubsetIdx : isPriced(cards[i]))
              => /\ pmOut \in {cards[i] : i \in SubsetIdx}
                 /\ isPriced(pmOut)
                 /\ \A i \in SubsetIdx : isPriced(cards[i]) => cheaperOrEqual(pmOut, cards[i])
           /\ (Len(cards) > 0 /\ \A i \in SubsetIdx : ~isPriced(cards[i]))
              => pmOut = cards[1]

\* a price text that is present and does not parse to a number
isUnparsable(card) ==
    card.market \notin {"", "N/A"} /\ parseFloat(KeepPriceChars(card.market)) = NaN

\* C9: a listing whose price text does not parse takes no part in the price
\* comparison: prioritizeMainSet never returns it while the subset holds a
\* listing with a parsable price.
C9_UnparsableNeverChosen ==
    (pmOut # Pending /\ \E i \in SubsetIdx : isPriced(pmCards.cards[i]))
        => /\ pmOut \in {pmCards.cards[i] : i \in SubsetIdx}
           /\ ~isUnparsable(pmOut)

\* C10: parsePrice returns null for "", for "N/A" and for every text whose
\* digit-and-point remainder does not parse; it returns a number otherwise.
C10_NullUnlessNumber ==
    ppOut # Pending =>
        IF ppText \in {"", "N/A"} \/ parseFloat(KeepPriceChars(ppText)) = NaN
        THEN ppOut = Null
        ELSE ppOut.kind = "num"

\* the substring tier as the design states it: with both sides lower-cased and
\* stripped of non-word characters, either one contains the other
containsEitherWay(searchTerm, title) ==
    LET normalizedSearch == StripNonWord(toLowerCase(searchTerm))
        normalizedTitle == StripNonWord(toLowerCase(title))
    IN \/ includes(normalizedTitle, normalizedSearch)
       \/ includes(normalizedSearch, normalizedTitle)

\* C11: a listing whose normalized title (or cleanTitle) contains the
\* normalized query, or is contained in it, is a match: the full pipeline never
\* takes the no-exact-match exit while such a listing was normalized.
C11_SubstringTierTwoWay ==
    (/\ plOut # Pending
     /\ plIn.v \in {"race", "cache", "launch"}
     /\ plIn.scrape.err = ""
     /\ \E i \in 1..Len(NormalizedListings) :
           \/ containsEitherWay(plIn.searchTerm, NormalizedListings[i].title)
           \/ containsEitherWay(plIn.searchTerm, NormalizedListings[i].cleanTitle))
        => plOut.exit # "fallback"

\* a query word w is covered by a title word t: t contains w, or w contains t,
\* or their lengths differ by at most 1 and they agree on all but the last
\* character
coveredBy(w, t) ==
    \/ includes(t, w)
    \/ includes(w, t)
    \/ LET a == IF Len(t) = 0 THEN 0 ELSE Len(t) - 1
           b == IF Len(w) = 0 THEN 0 ELSE Len(w) - 1
       IN /\ Abs(Len(t) - Len(w)) <= 1
          /\ a = b
          /\ \A k \in 1..a : Chr(t, k) = Chr(w, k)
fuzzyQueryWords == splitWs(toLowerCase(fmIn.searchTerm))
fuzzyTitleWords == splitWs(toLowerCase(fmIn.cardTitle))
coveredCount ==
    Cardinality({i \in 1..Len(fuzzyQueryWords) :
                    \E j \in 1..Len(fuzzyTitleWords) :
                        coveredBy(fuzzyQueryWords[i], fuzzyTitleWords[j])})

\* C12: fuzzyMatch is true exactly when the covered query words number at
\* least 0.8 of the query words, rounded up; a query of 1 to 4 words therefore
\* matches only if each of its words is covered.
C12_FuzzyThreshold ==
    fmOut # Pending =>
        /\ fmOut.value <=> 10 * coveredCount >= 8 * Len(fuzzyQueryWords)
        /\ (fmOut.value /\ Len(fuzzyQueryWords) \in 1..4)
              => coveredCount = Len(fuzzyQueryWords)

\* a five-word query matched with four of its words covered
C12_FourOfFiveMatched ==
    /\ fmOut # Pending
    /\ fmOut.value
    /\ Len(fuzzyQueryWords) = 5
    /\ coveredCount = 4

\* the normalized listings the variant's matcher keeps, and their two subsets
MatchedListings ==
    LET products == NormalizedListings
    IN {products[i] : i \in {j \in 1..Len(products) :
                                passesMatcher(plIn.v, plIn.searchTerm, products[j])}}
MatchedNonFoil == {c \in MatchedListings : ~c.isFoil}
MatchedFoil == {c \in MatchedListings : c.isFoil}

\* the pipeline call composed the selection message of the full pipeline
SelectionComposed ==
    /\ plOut # Pending
    /\ plIn.v \in {"race", "cache", "launch", "context"}
    /\ plOut.kind = "return"
    /\ plOut.exit = "selection"

\* the three message bodies of the design, before the length limit applies
bothBody(nonFoil, foil) ==
    "Card: " \o nonFoil.cleanTitle \o " (" \o nonFoil.setName \o ") | Regular: "
        \o nonFoil.market \o " | Foil: " \o foil.market
nonFoilBody(nonFoil) ==
    "Card: " \o nonFoil.title \o " (" \o nonFoil.setName \o ") | Market: "
        \o nonFoil.market \o " | Foil: Not found"
foilBody(foil) ==
    "Card: " \o foil.cleanTitle \o " (" \o foil.setName \o ") | Regular: Not found | Foil: "
        \o foil.market
limited(message) ==
    IF Len(message) <= MaxMessage THEN message
    ELSE SubSeq(message, 1, KeptOnTruncation) \o "..."

\* C13: the selection message is "{user}, " followed by the body its branch
\* fixes: both representatives present, only the non-foil one, only the foil
\* one; title, set name and price of a representative come from one listing.
C13_BranchByRepresentatives ==
    SelectionComposed =>
        LET prefix == plIn.chatUser \o ", "
        IN /\ (MatchedNonFoil # {} /\ MatchedFoil # {})
                => \E a \in MatchedNonFoil, b \in MatchedFoil :
                      plOut.msg = limited(prefix \o bothBody(a, b))
           /\ (MatchedNonFoil # {} /\ MatchedFoil = {})
                => \E a \in MatchedNonFoil :
                      plOut.msg = limited(prefix \o nonFoilBody(a))
           /\ (MatchedNonFoil = {} /\ MatchedFoil # {})
                => \E b \in MatchedFoil :
                      plOut.msg = limited(prefix \o foilBody(b))

\* a selection from a foil and a non-foil listing of different sets
C13_BothFromDifferentSets ==
    /\ SelectionComposed
    /\ \E a \in MatchedNonFoil, b \in MatchedFoil :
          /\ a.setName # b.setName
          /\ plOut.msg = plIn.chatUser \o ", " \o bothBody(a, b)

\* the messages the selection may have composed before the length limit
Compositions ==
    LET prefix == plIn.chatUser \o ", "
    IN IF MatchedNonFoil # {} /\ MatchedFoil # {}
       THEN {prefix \o bothBody(a, b) : a \in MatchedNonFoil, b \in MatchedFoil}
       ELSE IF MatchedNonFoil # {}
       THEN {prefix \o nonFoilBody(a) : a \in MatchedNonFoil}
       ELSE IF MatchedFoil # {}
       THEN {prefix \o foilBody(b) : b \in MatchedFoil}
       ELSE {prefix}

\* C14: a composed selection message longer than 390 characters is returned as
\* its first 387 characters followed by "...", 390 characters in all; one of
\* 390 characters or fewer is returned unchanged.
C14_TruncationExact ==
    SelectionComposed =>
        \E m \in Compositions :
            IF Len(m) > MaxMessage
            THEN /\ Len(plOut.msg) = MaxMessage
                 /\ SubSeq(plOut.msg, 1, KeptOnTruncation) = SubSeq(m, 1, KeptOnTruncation)
                 /\ SubSeq(plOut.msg, KeptOnTruncation + 1, MaxMessage) = "..."
            ELSE plOut.msg = m

\* a composed message of 391 characters or more was cut
C14_CutReached ==
    /\ SelectionComposed
    /\ \E m \in Compositions : Len(m) > MaxMessage
    /\ Len(plOut.msg) = MaxMessage

\* a composed message of exactly 390 characters was returned whole
C14_EdgeReached ==
    /\ SelectionComposed
    /\ \E m \in Compositions : Len(m) = MaxMessage /\ plOut.msg = m

\* the cache key of request r
keyOf(r) == cacheKeyOf(variant, req[r].card)

\* request r writes its entry in this step
Writes(r) == req[r].stored = NoEntry /\ req'[r].stored # NoEntry

\* every entry is the pair one resolution of its key wrote
EntriesWhole ==
    \A k \in DOMAIN cache :
        \E r \in Requests : keyOf(r) = k /\ req[r].stored = cache[k]

\* an entry appears or changes only as the whole pair of the request that
\* writes in that step, stamped with the time of the write; the entries of the
\* other keys stay as they were
WritesWhole ==
    \A k \in DOMAIN cache' :
        (k \notin DOMAIN cache \/ cache'[k] # cache[k]) =>
            /\ \E r \in Requests :
                  /\ Writes(r)
                  /\ keyOf(r) = k
                  /\ cache'[k] = req'[r].stored
                  /\ cache'[k].timestamp = now
            /\ \A j \in DOMAIN cache \ {k} : j \in DOMAIN cache' /\ cache'[j] = cache[j]

\* C15: two requests that miss on one key may both resolve and both write; the
\* entry of the key is always the complete {message, timestamp} pair of one
\* resolution, the one that wrote last, never the message of one with the
\* timestamp of the other, and a write leaves the other keys' entries alone.
C15_LastWriterWholeEntry == []EntriesWhole /\ [][WritesWhole]_vars

\* two requests missed on one key while both were in flight, both wrote,
\* messages and timestamps differ, and the entry is one of the two pairs
C15_BothMissedBothWrote ==
    /\ \A r \in {1, 2} : req[r].pc = "done" /\ req[r].path = "miss" /\ req[r].stored # NoEntry
    /\ keyOf(1) = keyOf(2)
    /\ req[2].startAt <= req[1].stored.timestamp
    /\ req[1].stored.result # req[2].stored.result
    /\ req[1].stored.timestamp # req[2].stored.timestamp
    /\ keyOf(1) \in DOMAIN cache
    /\ cache[keyOf(1)] \in {req[1].stored, req[2].stored}

\* the entries this step removes from the cache
Removed == DOMAIN cache \ DOMAIN cache'

\* C16: the sweep reads an entry's timestamp and deletes the entry in one turn
\* of the event loop, so no write lands in between: every entry that leaves
\* the cache is older than the retention window at the moment it is deleted.
C16_SweepDeletesOnlyExpired ==
    [][\A k \in Removed : now - cache[k].timestamp > RetentionOf(variant)]_vars

\* a sweep has deleted the entry a request wrote
C16_EntrySwept ==
    /\ sweeps > 0
    /\ \E r \in Requests : req[r].stored # NoEntry /\ keyOf(r) \notin DOMAIN cache

\* the exits of the matching/selection/formatting pipeline
PipelineExits == {"empty", "fallback", "selection"}

\* C17: when the 6500 ms deadline elapses while the listings have not arrived,
\* the pipeline is not run for that request afterwards, and the caller gets the
\* timeout message, not a no-listings message.
C17_NoPipelineAfterDeadline ==
    \A r \in Requests :
        req[r].timedOut = "scraping" =>
            /\ req[r].exit \notin PipelineExits
            /\ req[r].res = Res(timedOutMessage(req[r].user))

\* request r arrives in this step with a query that is not blank
Arrives(r) == req[r].pc = "new" /\ req'[r].pc # "new" /\ req'[r].path # "blank"

\* C18: the cache key is the lower-cased, trimmed query: a request whose query
\* equals, up to letter case and leading or trailing whitespace, the query an
\* entry younger than ttlMs was written under is answered from that entry.
C18_KeyIgnoresCaseAndSpace ==
    [][\A r \in Requests :
          (/\ Arrives(r)
           /\ \E k \in DOMAIN cache :
                 /\ trim(k) = trim(toLowerCase(req'[r].card))
                 /\ now - cache[k].timestamp < Ttl(variant))
             => req'[r].path = "hit"]_vars

\* C19: a stale entry is never served: an arriving request is answered from
\* the cache exactly when the cache holds an entry of its key with
\* now - timestamp < ttlMs, and then with that entry's message; when the entry
\* is of age ttlMs or more, or the key is absent, a full resolution starts.
C19_StaleNeverServed ==
    [][\A r \in Requests :
          Arrives(r) =>
            LET k == cacheKeyOf(variant, req'[r].card)
                fresh == k \in DOMAIN cache /\ now - cache[k].timestamp < Ttl(variant)
            IN /\ req'[r].path = "hit" <=> fresh
               /\ fresh => /\ req'[r].pc = "done"
                           /\ req'[r].res =
                                Res(replace(cache[k].result, "Streamer", req'[r].user))
               /\ ~fresh => req'[r].pc = "scraping"]_vars

\* a lookup found an entry of age exactly ttlMs and started a resolution
C19_StaleAtTtlMissed ==
    \E r \in Requests :
        /\ req[r].path = "miss"
        /\ req[r].cached # NoEntry
        /\ req[r].startAt - req[r].cached.timestamp = Ttl(variant)

BlankArrived(r) ==
    /\ req[r].pc # "new"
    /\ \A i \in 1..Len(req[r].card) : Chr(req[r].card, i) = " "

\* C21: a blank query (empty or whitespace only) is answered in the route
\* handler with the "please provide a card name" prompt: fetchCardPrice is not
\* called, the listing source is not contacted, the cache is left as it was.
C21_BlankRejectedInHandler ==
    /\ [](\A r \in Requests :
            BlankArrived(r) =>
                /\ req[r].pc = "done"
                /\ req[r].path = "blank"
                /\ req[r].res = Res(req[r].user \o ", please provide a card name!")
                /\ req[r].exit = "" /\ req[r].stored = NoEntry /\ req[r].cached = NoEntry)
    /\ [][\A r \in Requests :
            (req[r].pc = "new" /\ BlankArrived(r)') => cache' = cache]_vars

\* a whitespace-only query was turned away while the cache held an entry
C21_BlankWhileCached ==
    \E r \in Requests :
        /\ BlankArrived(r)
        /\ req[r].card = " "
        /\ req[r].res.sent
        /\ DOMAIN cache # {}

\* the keys the queries of the caching servers map to
CacheKeys == {cacheKeyOf(v, card) : v \in CachingVariants, card \in CacheCards}

\* the entry of key k has outlived the retention window
Outlived(k) ==
    k \in DOMAIN cache /\ now - cache[k].timestamp > RetentionOf(variant)

\* the sweep timer has a run due
SweepDue == now >= (sweeps + 1) * SweepInterval

\* C22: an entry whose age exceeds the retention window is removed by the next
\* run of the sweep, whether or not its key is looked up again: a run of the
\* sweep leaves no such entry behind, and a due run does take place.
C22_OutlivedEntryEvicted ==
    /\ [][sweeps' # sweeps => \A k \in CacheKeys : Outlived(k) => k \notin DOMAIN cache']_vars
    /\ \A k \in CacheKeys : (Outlived(k) /\ SweepDue) ~> ~Outlived(k)

\* an entry has outlived the retention window and a sweep is due, with no
\* request left to look the key up
C22_OutlivedAwaitingSweep ==
    /\ \E k \in CacheKeys : Outlived(k)
    /\ SweepDue
    /\ \A r \in Requests : req[r].pc \in {"done", "rejected"}

\* C23: the sweep never removes an entry a lookup would still serve: the
\* retention window of each caching variant is at least its lookup TTL, and
\* every entry with now - timestamp < ttlMs is in the cache after a sweep run.
C23_SweepSparesFresh ==
    /\ [](RetentionOf(variant) >= Ttl(variant))
    /\ [][\A k \in DOMAIN cache :
            now - cache[k].timestamp < Ttl(variant) => k \in DOMAIN cache']_vars

\* a sweep has run over an entry that was still fresh, and the entry is there
C23_FreshSurvivedSweep ==
    /\ sweeps > 0
    /\ \E k \in DOMAIN cache :
          /\ cache[k].timestamp < sweeps * SweepInterval
          /\ now - cache[k].timestamp < Ttl(variant)

\* the listing source throws for request r in this step
FailsNow(r) == req[r].pc = "scraping" /\ req'[r].exit = "scrape"

C25_PoolWithinMaxPages == Len(pagePool) <= MAX_PAGES

\* the callers that got a browser from getBrowser
Served == {c \in Callers0 : caller[c].browser # 0}

\* C26: the browser is launched at most once, and every caller of getBrowser
\* gets the same browser instance.
C26_SingleLaunch ==
    /\ launches <= 1
    /\ \A c \in Served : \A d \in Served : caller[c].browser = caller[d].browser

\* the requests that hold a page
Holding == {c \in Requests : caller[c].pc = "using"}

\* the pages idle in the pool
Pooled == {pagePool[k] : k \in 1..Len(pagePool)}

\* C27: a page handed out by getPage is neither in the pool nor held by
\* another request for as long as its holder has not returned it.
C27_PageHeldByOne ==
    \A c \in Holding :
        /\ caller[c].page \notin Pooled
        /\ \A d \in Holding : d # c => caller[d].page # caller[c].page

\* C27 witness: two requests of the pooled server hold a page each, both
\* popped from the pool, while another page is idle
C27_TwoHoldersBesidePool ==
    /\ variant = "pool"
    /\ Cardinality(Holding) >= 2
    /\ pagePool # << >>
    /\ \A c \in Holding : caller[c].page <= MAX_PAGES

\* C28: a request lets go of the page it obtained exactly once when it ends,
\* on every path, never of a page it did not obtain, and a request served
\* from the cache obtains no page.
C28_PageReleasedOnce ==
    \A c \in Requests :
        /\ caller[c].obtained <= 1
        /\ caller[c].released <= caller[c].obtained
        /\ caller[c].pc = "done" => caller[c].released = caller[c].obtained
        /\ caller[c].exit = "hit" => caller[c].obtained = 0

\* C28 witness: one request ended in a scrape error with its page let go, and
\* another was served from the cache
C28_ErrorReleasedBesideHit ==
    \E c \in Requests : \E d \in Requests :
        /\ caller[c].exit = "error" /\ caller[c].obtained = 1 /\ caller[c].released = 1
        /\ caller[d].exit = "hit"

\* C29: in the launch-per-request variant the browser launched for the
\* request has been closed when fetchCardPrice returns, on every path.
C29_BrowserClosedOnReturn ==
    (plOut # Pending /\ plIn.v = "launch") => plOut.browserClosed

\* the requests whose fetchCardPrice has settled, and the blank ones
Answerable == {r \in Requests : req[r].pc \in {"done", "rejected"}}

\* no request has had two responses, and one whose handler has run to its
\* end has had one
OneResponse ==
    /\ \A r \in Requests : req[r].res.count <= 1
    /\ \A r \in Answerable : req[r].res.sent /\ req[r].res.count = 1

\* a response that has been sent is never replaced
ResponseKept == \A r \in Requests : req[r].res.sent => req'[r].res = req[r].res

\* C30: in the timeout-protected variant each request receives exactly one
\* response in every ordering of fetchCardPrice settling, the 6500 ms timer
\* and the 7000 ms response timeout; when the race timer wins, the later
\* result of fetchCardPrice is never sent.
C30_ExactlyOneResponse == []OneResponse /\ [][ResponseKept]_vars

\* C30 witness: the race timer answered a request whose fetchCardPrice went on
\* to a selection message, and the answer is still the timer's; another
\* request was answered by the response timeout before its fetchCardPrice
\* settled
C30_TimerWonThenSettled ==
    \E r \in Requests : \E q \in Requests :
        /\ req[r].pc = "done" /\ req[r].timedOut # "" /\ req[r].exit = "selection"
        /\ req[r].res = Res(timedOutMessage(req[r].user))
        /\ req[q].pc = "done" /\ req[q].res = Res(responseTimeoutMessage)

=============================================================================
